---- MODULE Spec2Model ----
(***************************************************************************)
(* IxJS asynchronous sequences: the stream-backed adapters of              *)
(* fromdomstream.ts, the adapters and constructors of asynciterablex.ts,   *)
(* and the tap operator of tap.ts laid over any of them.                   *)
(*                                                                         *)
(* One behaviour follows one sequence instance and one iteration of it.    *)
(* Every adapter's [Symbol.asyncIterator] is an async generator: `gen` is  *)
(* the generator's state, `pc` the await its body is suspended at, and a   *)
(* step is either a request of the consumer (next / return / throw) run up *)
(* to the body's next await, or the settlement of that await by the        *)
(* environment (the stream, the source, the transform) run up to the next  *)
(* await or to the answer given to the consumer.                           *)
(***************************************************************************)
EXTENDS Integers, Sequences, FiniteSets, TLC

\* ------------------------------------------------------------------ bounds
MaxReq == 10     \* largest byte count (or buffer length) a pull asks for
MaxChunk == 3    \* most bytes the stream hands back in one read
MaxPulls == 3    \* requests (next / return / throw) the consumer issues
BufLen == 2      \* length of the buffers a pull hands over
MaxItems == 3    \* most items a source holds
MaxArgs == 3     \* most arguments a pipe call is given

\* ------------------------------------------------------------------ values
NoResult == [t |-> "none", v |-> <<>>, e |-> "none"]
Value(v) == [t |-> "value", v |-> v, e |-> "none"]
Done == [t |-> "done", v |-> <<>>, e |-> "none"]
Failure(e) == [t |-> "error", v |-> <<>>, e |-> e]

Undef == [t |-> "undef", n |-> 0]
\* The byte counts a pull asks for: none, one, more than one read can bring,
\* and the largest.
Sizes == {0, 1, MaxChunk + 1, MaxReq}

\* What a pull may pass to next(): nothing, a byte count, an ArrayBuffer or a
\* SharedArrayBuffer (empty, or of BufLen bytes).
Args == {Undef} \cup [t : {"num"}, n : Sizes] \cup [t : {"buf", "sab"}, n : {0, BufLen}]

\* The classes: AsyncIterableReadableStream, AsyncIterableReadableByteStream,
\* OfAsyncIterable, FromArrayIterable, FromAsyncIterable, FromPromiseIterable,
\* FromObservableAsyncIterable.
StreamKinds == {"dom", "byob"}
FromKinds == {"array", "iter", "promise", "observable"}
Kinds == StreamKinds \cup {"of"} \cup FromKinds

VARIABLES
  kind,   \* the class of the sequence instance
  gen,    \* the async generator: none, suspendedStart, suspendedYield, executing, completed
  pc,     \* the await the body is suspended at (idle when it is not)
  pend,   \* the consumer's latest request: none, next, return, throw
  arg,    \* the argument of the latest next() that reached byobReaderToAsyncIterator
  nreq,   \* requests issued so far
  rd,     \* the stream, its reader and _consumeReader's locals
  by,     \* the buffer-reuse read cycle: readInto's buffer, offset and size
  sq,     \* the source of an of / from sequence and the body's locals
  ob,     \* the observable, its subscription and the sink between it and the body
  tp,     \* the tap operator over the sequence (if any): its generator and observer
  co,     \* what the consumer has been given
  source, \* the value handed to AsyncIterableX.as / AsyncIterableX.from
  made    \* what the constructor returned (or threw)

iter == <<kind, gen, pc, pend, arg, nreq, rd, by, sq, ob, tp, co>>
vars == <<kind, gen, pc, pend, arg, nreq, rd, by, sq, ob, tp, co, source, made>>

\* ------------------------------------------------------------ the consumer
\* Sources are labelled by position: a stream's bytes (or chunks) and a
\* source's items are 1, 2, 3, ... in the order the source produces them, and
\* the transform's result for (item, index) is written <<item, index>>.
\* Expected(n) is the value that continues what the consumer already has: the
\* next n bytes, the next chunk or item, or the transform's result for the next
\* item at the next index.
Expected(n) ==
  IF kind \in FromKinds
    THEN <<co.vals + 1, co.vals>>
    ELSE [j \in 1..n |-> co.got + j]

\* The consumer's pending request is answered with r.
Answer(r) ==
  co' = [co EXCEPT !.waiting = FALSE,
                   !.last = r,
                   !.nres = @ + 1,
                   !.vals = IF r.t = "value" THEN @ + 1 ELSE @,
                   !.got = IF r.t = "value" THEN @ + Len(r.v) ELSE @,
                   !.ordered = @ /\ (r.t = "value" => r.v = Expected(Len(r.v))),
                   !.aborted = @ \/ pend' # "next",
                   !.failed = @ \/ r.t = "error",
                   !.doneSeen = @ \/ r.t = "done",
                   !.afterDone = IF co.doneSeen /\ pend' = "next" THEN @ + 1 ELSE @]

\* The consumer's pending request stays unanswered.
Hold == co' = [co EXCEPT !.waiting = TRUE, !.aborted = @ \/ pend' # "next"]

\* (A tap that passes every result on without telling its observer.)
TapReceive_Unobserved(r) ==
  /\ tp' = [tp EXCEPT !.gen = IF r.t = "value" THEN "suspendedYield" ELSE "completed",
                      !.pc = "idle"]
  /\ Answer(r)

\* tap.ts: `next = await it.next()` has settled with r.  An item goes to
\* observer.next (if there is one) and is then yielded; done goes to
\* observer.complete and ends the body; a rejection goes to observer.error and
\* is then thrown.  Each callback is awaited.
TapReceive(r) ==
  LET has == CASE r.t = "value" -> tp.hasNext
               [] r.t = "done" -> tp.hasComplete
               [] OTHER -> tp.hasError
      at == CASE r.t = "value" -> "obsNext"
              [] r.t = "done" -> "obsComplete"
              [] OTHER -> "obsError"
  IN IF has
       THEN /\ tp' = [tp EXCEPT !.gen = "executing", !.pc = at, !.held = r,
                                 !.calls = Append(@, r)]
            /\ Hold
       ELSE /\ tp' = [tp EXCEPT !.gen = IF r.t = "value" THEN "suspendedYield" ELSE "completed",
                                 !.pc = "idle"]
            /\ Answer(r)

\* The sequence's generator answers the request it was sent with r: to the
\* consumer, or to the tap operator that sent it.
Respond(r) == IF tp.on THEN TapReceive(r) ELSE tp' = tp /\ Answer(r)

\* The sequence's body is suspended at an await: whoever sent the request waits.
Wait ==
  /\ tp' = IF tp.on THEN [tp EXCEPT !.gen = "executing", !.pc = "inner"] ELSE tp
  /\ Hold

\* A yield hands v to the consumer and suspends the generator.
Yield(v) == gen' = "suspendedYield" /\ pc' = "idle" /\ Respond(Value(v))

\* The generator's body has run to its end (r is Done) or thrown (a Failure):
\* the generator is completed for good.
Finish_Resumable(r) == gen' = "suspendedYield" /\ pc' = "idle" /\ Respond(r)
Finish(r) == gen' = "completed" /\ pc' = "idle" /\ Respond(r)

\* A request to a generator that has completed, or whose body never started
\* (next() on a fresh generator starts the body and is not handled here).
NoBody(op) ==
  /\ gen' = "completed" /\ pc' = "idle"
  /\ Respond(IF op = "throw" THEN Failure("E_throw") ELSE Done)

\* ------------------------------------------------- fromdomstream.ts: reads
\* new Uint8Array(buffer, 0, n): the first n bytes of the buffer.
View(buf, n) == SubSeq(buf, 1, n)

\* The stream writes bytes spos+1 .. spos+k of its data at offset .. offset+k-1.
Fill(buf, offset, k, spos) ==
  [j \in 1..Len(buf) |-> IF offset < j /\ j <= offset + k THEN spos + (j - offset) ELSE buf[j]]

\* reader.read() is called: the body waits for the stream.
IssueRead(r, b) ==
  /\ rd' = [r EXCEPT !.reads = @ + 1]
  /\ by' = b
  /\ gen' = "executing" /\ pc' = "read"
  /\ Wait

\* _consumeReader's finally block up to its first await: reader.cancel().
\* (reader is always set, threw is false on this path.)
EnterFinally(r, b) ==
  /\ rd' = [r EXCEPT !.cancels = Append(@, "noreason")]
  /\ by' = b
  /\ gen' = "executing" /\ pc' = "cancelFinally"
  /\ Wait

\* _consumeReader's catch block up to its await: threw = true, reader.cancel(e).
EnterCatch(r, e) ==
  /\ rd' = [r EXCEPT !.threw = TRUE, !.innerErr = e, !.cancels = Append(@, e)]
  /\ by' = by
  /\ gen' = "executing" /\ pc' = "cancelCatch"
  /\ Wait

\* readInto(reader, buffer, offset, size), up to its read or its return.
readInto_AlwaysReads(r, b) == IssueRead(r, b)
readInto(r, b) ==
  IF b.offset >= b.size
    THEN rd' = r /\ by' = b /\ Yield(View(b.buf, b.size))
    ELSE IssueRead(r, b)

\* readNext(reader, bufferOrLen, 0): a number allocates a zeroed buffer, a
\* buffer is used as it is (its old content is written 0 - 1 here), anything
\* else is answered { done: true } without a read, which ends the inner loop.
\* (cycles counts the read cycles begun.)
readNext(r, a) ==
  IF a.t = "num"
    THEN readInto([r EXCEPT !.cycles = @ + 1],
                  [size |-> a.n, offset |-> 0, buf |-> [j \in 1..a.n |-> 0]])
  ELSE IF a.t \in {"buf", "sab"}
    THEN readInto([r EXCEPT !.cycles = @ + 1],
                  [size |-> a.n, offset |-> 0, buf |-> [j \in 1..a.n |-> 0 - 1]])
  ELSE EnterFinally(r, by)

\* A request reaches the generator of a stream-backed sequence.
\* (g and r are the generator and the reader as the request finds them.)
StreamRequest(g, r, op, a) ==
  CASE g = "suspendedStart" ->
         IF op = "next"
           THEN IssueRead([r EXCEPT !.started = TRUE, !.reads = 0], by)
           ELSE rd' = r /\ by' = by /\ NoBody(op)
    [] g = "suspendedYield" ->
         IF op = "next"
           THEN IF r.mode = "byob"
                  THEN readNext([r EXCEPT !.reads = 0], a)
                  ELSE IssueRead([r EXCEPT !.reads = 0], by)
         ELSE IF op = "return" THEN EnterFinally(r, by)
         ELSE EnterCatch(r, "E_throw")
    [] g = "completed" -> rd' = r /\ by' = by /\ NoBody(op)

\* ------------------------------------------- asynciterablex.ts: of and from
\* toLength(source.length): a length that is not positive counts as 0.
toLength(n) == IF n <= 0 THEN 0 ELSE n

\* The i++ of `this._selector(item, i++)`.
nextIndex_Stuck(i) == i
nextIndex(i) == i + 1

\* `await this._selector(item, i++)` up to the await: the transform is called
\* with (item, i), i is incremented, and the body waits for the result.
CallSelector(s, item) ==
  /\ sq' = [s EXCEPT !.calls = @ + 1,
                     !.callsOK = @ /\ item = s.calls + 1 /\ s.i = s.calls /\ co.vals = s.calls,
                     !.cur = <<item, s.i>>,
                     !.i = nextIndex(s.i)]
  /\ gen' = "executing" /\ pc' = "sel"
  /\ Wait

\* OfAsyncIterable: for (let item of this._args) yield item.
OfStep ==
  /\ ob' = ob
  /\ IF sq.i < sq.n
       THEN sq' = [sq EXCEPT !.i = @ + 1] /\ Yield(<<sq.i + 1>>)
       ELSE sq' = sq /\ Finish(Done)

\* FromArrayIterable: while (i < length) yield await this._selector(source[i], i++).
ArrayStep(s) ==
  /\ ob' = ob
  /\ IF s.i < s.length
       THEN CallSelector(s, s.i + 1)
       ELSE sq' = s /\ Finish(Done)

\* FromAsyncIterable: the for await asks the source's iterator for its next item.
SourceNext ==
  /\ sq' = sq /\ ob' = ob
  /\ gen' = "executing" /\ pc' = "src"
  /\ Wait

\* FromAsyncIterable: leaving the for await early (a return or a throw at the
\* yield, a failed transform) calls the source iterator's return() and awaits
\* it; `after` is how the body ends once it has settled.
CloseSource(after) ==
  /\ sq' = [sq EXCEPT !.closes = @ + 1, !.after = after]
  /\ ob' = ob
  /\ gen' = "executing" /\ pc' = "srcReturn"
  /\ Wait

\* FromObservableAsyncIterable: `await sink.next()`.
SinkNext(o) ==
  /\ sq' = sq /\ ob' = o
  /\ gen' = "executing" /\ pc' = "sink"
  /\ Wait

\* FromObservableAsyncIterable: the finally block, subscription.unsubscribe(),
\* after which the body ends with r.
Unsubscribe_Skipped(r) == sq' = sq /\ ob' = ob /\ Finish(r)
Unsubscribe(r) ==
  /\ sq' = sq
  /\ ob' = [ob EXCEPT !.unsubs = @ + 1]
  /\ Finish(r)

\* A request reaches the generator of an of / from sequence.
SeqRequest(g, op) ==
  LET r == IF op = "throw" THEN Failure("E_throw") ELSE Done IN
  IF g = "suspendedStart" /\ op = "next"
    THEN CASE kind = "of" -> OfStep
           [] kind = "array" -> ArrayStep([sq EXCEPT !.i = 0, !.length = toLength(sq.n)])
           [] kind = "iter" -> SourceNext
           [] kind = "promise" ->
                UNCHANGED <<sq, ob>> /\ gen' = "executing" /\ pc' = "promise" /\ Wait
           [] kind = "observable" -> SinkNext([ob EXCEPT !.subs = @ + 1])
  ELSE IF g = "suspendedYield"
    THEN CASE kind = "of" -> IF op = "next" THEN OfStep ELSE UNCHANGED <<sq, ob>> /\ Finish(r)
           [] kind = "array" ->
                IF op = "next" THEN ArrayStep(sq) ELSE UNCHANGED <<sq, ob>> /\ Finish(r)
           [] kind = "iter" -> IF op = "next" THEN SourceNext ELSE CloseSource(r)
           [] kind = "promise" -> UNCHANGED <<sq, ob>> /\ Finish(r)
           [] kind = "observable" -> IF op = "next" THEN SinkNext(ob) ELSE Unsubscribe(r)
  ELSE UNCHANGED <<sq, ob>> /\ NoBody(op)

\* The transform's result settles: the item is yielded, or the body throws.
SelectorSettle(ok) ==
  /\ pc = "sel"
  /\ UNCHANGED <<source, made, kind, pend, arg, nreq, rd, by>>
  /\ IF ok THEN UNCHANGED <<sq, ob>> /\ Yield(sq.cur)
     ELSE IF kind = "iter" THEN CloseSource(Failure("E_sel"))
     ELSE IF kind = "observable" THEN Unsubscribe(Failure("E_sel"))
     ELSE UNCHANGED <<sq, ob>> /\ Finish(Failure("E_sel"))

\* The source iterator's next() settles with its next item.
SourceItem ==
  /\ pc = "src" /\ sq.pos < sq.n
  /\ UNCHANGED <<source, made, kind, pend, arg, nreq, rd, by>>
  /\ ob' = ob
  /\ CallSelector([sq EXCEPT !.pos = @ + 1], sq.pos + 1)

\* The source iterator's next() reports done: the for await ends, and the body.
SourceDone ==
  /\ pc = "src" /\ sq.pos = sq.n
  /\ UNCHANGED <<source, made, kind, pend, arg, nreq, rd, by>>
  /\ UNCHANGED <<sq, ob>>
  /\ Finish(Done)

\* The source iterator's next() rejects: the body throws (return() is not called).
SourceFail ==
  /\ pc = "src"
  /\ UNCHANGED <<source, made, kind, pend, arg, nreq, rd, by>>
  /\ UNCHANGED <<sq, ob>>
  /\ Finish(Failure("E_src"))

\* The source iterator's return() settles.  Its rejection becomes the body's
\* outcome unless the body was already throwing.
SourceReturnSettle(ok) ==
  /\ pc = "srcReturn"
  /\ UNCHANGED <<source, made, kind, pend, arg, nreq, rd, by>>
  /\ UNCHANGED <<sq, ob>>
  /\ Finish(IF ok \/ sq.after.t = "error" THEN sq.after ELSE Failure("E_close"))

\* FromPromiseIterable: `await this._source` settles.
PromiseSettle(ok) ==
  /\ pc = "promise"
  /\ UNCHANGED <<source, made, kind, pend, arg, nreq, rd, by>>
  /\ ob' = ob
  /\ IF ok THEN CallSelector([sq EXCEPT !.pos = 1], 1)
          ELSE sq' = sq /\ Finish(Failure("E_src"))

\* The observable, while subscribed and not terminated, pushes its next item
\* (observer.next -> sink.write), completes (sink.end) or fails (sink.error).
ObsActive == ob.subs > ob.unsubs /\ ~ob.term

ObservableNext ==
  /\ ObsActive /\ sq.pos < sq.n
  /\ sq' = [sq EXCEPT !.pos = @ + 1]
  /\ ob' = [ob EXCEPT !.q = Append(@, sq.pos + 1)]
  /\ UNCHANGED <<source, made, kind, gen, pc, pend, arg, nreq, rd, by, tp, co>>

ObservableComplete ==
  /\ ObsActive /\ sq.pos = sq.n
  /\ ob' = [ob EXCEPT !.ended = TRUE, !.term = TRUE]
  /\ UNCHANGED <<source, made, kind, gen, pc, pend, arg, nreq, rd, by, sq, tp, co>>

ObservableError ==
  /\ ObsActive
  /\ ob' = [ob EXCEPT !.q = Append(@, 0), !.term = TRUE]
  /\ UNCHANGED <<source, made, kind, gen, pc, pend, arg, nreq, rd, by, sq, tp, co>>

\* The awaited sink.next() settles: with the oldest queued item (a value
\* resolves it, an error rejects it), or with done once the sink has ended.
SinkSettle ==
  /\ pc = "sink"
  /\ UNCHANGED <<source, made, kind, pend, arg, nreq, rd, by>>
  /\ IF ob.q # <<>>
       THEN IF Head(ob.q) = 0
              THEN /\ sq' = sq
                   /\ ob' = [ob EXCEPT !.q = Tail(@), !.unsubs = @ + 1]
                   /\ Finish(Failure("E_src"))
              ELSE /\ ob' = [ob EXCEPT !.q = Tail(@)]
                   /\ CallSelector(sq, Head(ob.q))
       ELSE /\ ob.ended
            /\ Unsubscribe(Done)

\* stream.locked: the adapter's reader or another adapter's holds the lock.
StreamLocked(r) == r.locked \/ r.other = "held"

\* (A reader that took no lock.)
Acquire_Unlocked(byobOK) ==
  IF kind = "byob" /\ byobOK
    THEN [gen |-> "suspendedYield", rd |-> [rd EXCEPT !.mode = "byob", !.started = TRUE]]
  ELSE IF kind \in StreamKinds
    THEN [gen |-> "suspendedStart", rd |-> [rd EXCEPT !.mode = "default"]]
  ELSE [gen |-> "suspendedStart", rd |-> rd]

\* (A pump on the fallback path would start the default generator's first read
\* before any pull; here it is handed over as if it had yielded.)
Acquire_PumpedFallback(byobOK) ==
  IF kind = "byob" /\ byobOK
    THEN [gen |-> "suspendedYield",
          rd |-> [rd EXCEPT !.locked = TRUE, !.mode = "byob", !.started = TRUE]]
  ELSE IF kind \in StreamKinds
    THEN [gen |-> "suspendedYield",
          rd |-> [rd EXCEPT !.locked = TRUE, !.mode = "default", !.started = TRUE]]
  ELSE [gen |-> "suspendedStart", rd |-> rd]

\* (Without the pump the buffer-reuse generator would be handed over unstarted.)
Acquire_NoPump(byobOK) ==
  IF kind = "byob" /\ byobOK
    THEN [gen |-> "suspendedStart", rd |-> [rd EXCEPT !.locked = TRUE, !.mode = "byob"]]
  ELSE IF kind \in StreamKinds
    THEN [gen |-> "suspendedStart", rd |-> [rd EXCEPT !.locked = TRUE, !.mode = "default"]]
  ELSE [gen |-> "suspendedStart", rd |-> rd]

\* [Symbol.asyncIterator]() of the sequence: the generator and the reader it
\* leaves behind.  A stream-backed sequence calls stream.getReader() and
\* _consumeReader; in buffer-reuse mode (when the reader could be acquired) the
\* iterator is pumped once, which runs both generators to `yield null`.  An
\* of / from sequence makes a fresh generator.
Acquire(byobOK) ==
  IF kind = "byob" /\ byobOK
    THEN [gen |-> "suspendedYield",
          rd |-> [rd EXCEPT !.locked = TRUE, !.mode = "byob", !.started = TRUE]]
  ELSE IF kind \in StreamKinds
    THEN [gen |-> "suspendedStart", rd |-> [rd EXCEPT !.locked = TRUE, !.mode = "default"]]
  ELSE [gen |-> "suspendedStart", rd |-> rd]

\* The consumer obtains the iterator of a stream-backed sequence.  While
\* another reader holds the stream's lock getReader throws (in buffer-reuse
\* mode both attempts do) and no iterator is made.
GetIterator ==
  /\ ~tp.on /\ gen = "none" /\ kind \in StreamKinds
  /\ IF StreamLocked(rd)
       THEN rd' = [rd EXCEPT !.refused = TRUE] /\ gen' = gen
       ELSE \E byobOK \in BOOLEAN :
              LET it == Acquire(byobOK) IN rd' = it.rd /\ gen' = it.gen
  /\ UNCHANGED <<source, made, kind, pc, pend, arg, nreq, by, sq, ob, tp, co>>

\* Another adapter over the same stream starts an iteration: its getReader
\* throws while the stream is locked, and takes the lock otherwise.
OtherGetIterator ==
  /\ kind \in StreamKinds /\ rd.other = "none"
  /\ rd' = [rd EXCEPT !.other = IF StreamLocked(rd) THEN "refused" ELSE "held"]
  /\ UNCHANGED <<source, made, kind, gen, pc, pend, arg, nreq, by, sq, ob, tp, co>>

\* The other adapter's iteration ends and its cleanup releases the lock.
OtherRelease ==
  /\ rd.other = "held"
  /\ rd' = [rd EXCEPT !.other = "released"]
  /\ UNCHANGED <<source, made, kind, gen, pc, pend, arg, nreq, by, sq, ob, tp, co>>

\* The consumer obtains the iterator of an of / from sequence.
GetSeqIterator ==
  /\ ~tp.on /\ gen = "none" /\ kind \notin StreamKinds
  /\ gen' = Acquire(FALSE).gen
  /\ UNCHANGED <<source, made, kind, pc, pend, arg, nreq, rd, by, sq, ob, tp, co>>

\* The consumer obtains the iterator of a tap over the sequence: a fresh
\* generator; the sequence's own iterator is obtained when the body starts.
GetTapIterator ==
  /\ tp.on /\ tp.gen = "none"
  /\ tp' = [tp EXCEPT !.gen = "suspendedStart"]
  /\ UNCHANGED <<source, made, kind, gen, pc, pend, arg, nreq, rd, by, sq, ob, co>>

\* ------------------------------------------------------- consumer requests
\* A request reaches the sequence's generator.
BaseRequest(g, r, op, a) ==
  IF kind \in StreamKinds
    THEN StreamRequest(g, r, op, a) /\ UNCHANGED <<sq, ob>>
    ELSE SeqRequest(g, op) /\ UNCHANGED <<rd, by>>

\* A request reaches the tap's generator.  The first next() starts the body,
\* which obtains the source's iterator and pulls it; a next() at the yield
\* pulls it again, with no argument; a return() or throw() at the yield (or
\* before the body started) completes the generator: the body has no finally
\* block and does not touch the source's iterator.
TapRequest(op) ==
  IF tp.gen = "suspendedStart" /\ op = "next" /\ kind \in StreamKinds /\ StreamLocked(rd)
    THEN /\ UNCHANGED <<gen, pc, by, sq, ob>>
         /\ rd' = [rd EXCEPT !.refused = TRUE]
         /\ tp' = [tp EXCEPT !.gen = "completed", !.pc = "idle"]
         /\ Answer(Failure("TypeError"))
  ELSE IF tp.gen = "suspendedStart" /\ op = "next"
    THEN \E byobOK \in BOOLEAN :
           LET it == Acquire(byobOK) IN BaseRequest(it.gen, it.rd, "next", Undef)
  ELSE IF tp.gen = "suspendedYield" /\ op = "next"
    THEN BaseRequest(gen, rd, "next", Undef)
  ELSE /\ UNCHANGED <<gen, pc, rd, by, sq, ob>>
       /\ tp' = [tp EXCEPT !.gen = "completed", !.pc = "idle"]
       /\ Answer(IF op = "throw" THEN Failure("E_throw") ELSE Done)

\* The generator the consumer talks to.
Facing == IF tp.on THEN tp.gen ELSE gen

Request(op, a) ==
  /\ Facing \in {"suspendedStart", "suspendedYield", "completed"}
  /\ ~co.waiting
  /\ nreq < (IF kind \in StreamKinds THEN MaxPulls ELSE MaxItems + 2)
  /\ nreq' = nreq + 1
  /\ pend' = op
  /\ arg' = IF ~tp.on /\ op = "next" /\ gen = "suspendedYield" /\ rd.mode = "byob"
             THEN a ELSE Undef
  /\ UNCHANGED <<source, made, kind>>
  /\ IF tp.on THEN TapRequest(op) ELSE BaseRequest(gen, rd, op, a)

\* The observer's callback settles.  Resolved, the body goes on: the item is
\* yielded, the loop is left, the source's failure is thrown.  Rejected (or
\* thrown by the callback), the body throws that.
ObserverSettle(ok) ==
  /\ tp.pc \in {"obsNext", "obsComplete", "obsError"}
  /\ UNCHANGED <<source, made, kind, gen, pc, pend, arg, nreq, rd, by, sq, ob>>
  /\ tp' = [tp EXCEPT !.gen = IF ok /\ tp.pc = "obsNext" THEN "suspendedYield" ELSE "completed",
                      !.pc = "idle", !.failed = @ \/ ~ok]
  /\ Answer(IF ok THEN tp.held ELSE Failure("E_obs"))

Next_(a) == Request("next", a)
Return_ == Request("return", Undef)
Throw_ == Request("throw", Undef)

\* ------------------------------------------------ the stream settles a read
\* readInto's test after a read: (offset += value.byteLength) < size && !done.
moreToRead_Never(b, done) == FALSE
moreToRead(b, done) == b.offset < b.size /\ ~done

\* The read resolves { done: false } with a chunk (default reader) or with k
\* bytes written into the view (buffer-reuse reader).
ReadChunk(k) ==
  /\ pc = "read" /\ rd.sstate = "readable"
  /\ UNCHANGED <<source, made, kind, pend, arg, nreq, sq, ob>>
  /\ IF rd.mode = "byob"
       THEN /\ k <= by.size - by.offset
            /\ LET b == [by EXCEPT !.buf = Fill(@, by.offset, k, rd.spos), !.offset = @ + k]
                   r == [rd EXCEPT !.spos = @ + k]
               IN IF moreToRead(b, FALSE)
                    THEN readInto(r, b)
                    ELSE rd' = r /\ by' = b /\ Yield(View(b.buf, b.offset))
       ELSE /\ k = 1
            /\ rd' = [rd EXCEPT !.spos = @ + 1]
            /\ by' = by
            /\ Yield(<<rd.spos + 1>>)

\* The read resolves { done: true }: the stream has closed.  In buffer-reuse
\* mode the read hands back an empty view, readInto returns { done: true,
\* value: view of the offset bytes filled }, and byobReaderToAsyncIterator's
\* loop ends on r.done without yielding that value.
ReadEnd ==
  /\ pc = "read" /\ rd.sstate = "readable"
  /\ UNCHANGED <<source, made, kind, pend, arg, nreq, sq, ob>>
  /\ EnterFinally([rd EXCEPT !.sstate = "closed"], by)

\* The read rejects, with the stream errored (errs) or not (a buffer-reuse
\* read refuses its view, a reader that is not a stream's own).
ReadFail(errs) ==
  /\ pc = "read" /\ rd.sstate = "readable"
  /\ UNCHANGED <<source, made, kind, pend, arg, nreq, sq, ob>>
  /\ EnterCatch([rd EXCEPT !.sstate = IF errs THEN "errored" ELSE @], "E_read")

\* if (stream.locked) { try { reader.releaseLock() } catch {} }
Release(r, relOK) ==
  IF StreamLocked(r)
    THEN [r EXCEPT !.releases = @ + 1,
                   !.relErrs = IF relOK THEN @ ELSE @ + 1,
                   !.locked = ~relOK]
    ELSE r

\* What reader.cancel() may do: a closed stream resolves, an errored stream
\* rejects with its stored error, a readable one runs the source's cancel
\* callback, which may fail.
CancelOutcomes ==
  CASE rd.sstate = "closed" -> {"ok"}
    [] rd.sstate = "errored" -> {"E_read"}
    [] OTHER -> {"ok", "E_cancel"}

\* The finally block's test before its cancel: if (!threw).
finallyCancels_Always(r) == TRUE
finallyCancels(r) == ~r.threw

\* The cancel awaited in the catch block settles: resolved, the catch block
\* ends without rethrowing; rejected, it throws the rejection.  The finally
\* block runs either way.
CancelCatchSettle(out, relOK) ==
  /\ pc = "cancelCatch"
  /\ UNCHANGED <<source, made, kind, pend, arg, nreq, sq, ob>>
  /\ out \in CancelOutcomes
  /\ LET r == [rd EXCEPT !.cancelErr = IF out = "ok" THEN @ ELSE out] IN
       IF finallyCancels(r)
         THEN EnterFinally(r, by)
         ELSE /\ rd' = Release(r, relOK)
              /\ by' = by
              /\ Finish(IF out = "ok" THEN Done ELSE Failure(out))

\* The cancel awaited in the finally block settles: resolved, the lock is
\* released and the body ends as it was ending; rejected, the rejection leaves
\* the block at once and becomes the body's outcome.
CancelFinallySettle(out, relOK) ==
  /\ pc = "cancelFinally"
  /\ UNCHANGED <<source, made, kind, pend, arg, nreq, sq, ob>>
  /\ out \in CancelOutcomes
  /\ rd' = IF out = "ok" THEN Release(rd, relOK) ELSE [rd EXCEPT !.cancelErr = out]
  /\ by' = by
  /\ Finish(IF out = "ok" THEN Done ELSE Failure(out))

\* --------------------------------------- asynciterablex.ts: as and from
\* An input is described by what the constructors look at: its type, whether
\* it is an AsyncIterableX, whether its then / subscribe is a function, and
\* what isIterable, isAsyncIterable, isArrayLike and isIterator answer for it.
NoInput == [typ |-> "none", isX |-> FALSE, then |-> FALSE, subscribe |-> FALSE,
            iterable |-> FALSE, asyncIterable |-> FALSE, arrayLike |-> FALSE,
            iterator |-> FALSE]

Inputs ==
  { x \in [typ : {"null", "string", "number", "object"}, isX : BOOLEAN, then : BOOLEAN,
           subscribe : BOOLEAN, iterable : BOOLEAN, asyncIterable : BOOLEAN,
           arrayLike : BOOLEAN, iterator : BOOLEAN] :
      /\ x.isX => (x.typ = "object" /\ x.asyncIterable)
      /\ x.typ \in {"null", "number"} =>
           ~(x.then \/ x.subscribe \/ x.iterable \/ x.asyncIterable \/ x.arrayLike \/ x.iterator)
      /\ x.typ = "string" => ~(x.then \/ x.subscribe \/ x.asyncIterable \/ x.iterator) }

\* x != null && Object(x) === x && typeof x['then'] === 'function'
isPromise(x) == x.typ # "null" /\ x.typ = "object" /\ x.then

\* x != null && Object(x) === x && typeof x['subscribe'] === 'function'
isObservable(x) == x.typ # "null" /\ x.typ = "object" /\ x.subscribe

NotMade == [by |-> "none", is |-> "none"]

\* AsyncIterableX.as(source): what it returns.  "same" is the source itself,
\* "of" is new OfAsyncIterable([source]).
as_ObservableFirst(x) ==
  IF x.isX THEN "same"
  ELSE IF x.typ = "string" THEN "of"
  ELSE IF x.iterable \/ x.asyncIterable THEN "iter"
  ELSE IF isObservable(x) THEN "observable"
  ELSE IF isPromise(x) THEN "promise"
  ELSE IF x.arrayLike THEN "array"
  ELSE "of"
as(x) ==
  IF x.isX THEN "same"
  ELSE IF x.typ = "string" THEN "of"
  ELSE IF x.iterable \/ x.asyncIterable THEN "iter"
  ELSE IF isPromise(x) THEN "promise"
  ELSE IF isObservable(x) THEN "observable"
  ELSE IF x.arrayLike THEN "array"
  ELSE "of"

\* AsyncIterableX.from(source, selector): what it returns, or "TypeError".
from_NoIterator(x) ==
  IF x.iterable \/ x.asyncIterable THEN "iter"
  ELSE IF isPromise(x) THEN "promise"
  ELSE IF isObservable(x) THEN "observable"
  ELSE IF x.arrayLike THEN "array"
  ELSE "TypeError"
from(x) ==
  IF x.iterable \/ x.asyncIterable THEN "iter"
  ELSE IF isPromise(x) THEN "promise"
  ELSE IF isObservable(x) THEN "observable"
  ELSE IF x.arrayLike THEN "array"
  ELSE IF x.iterator THEN "iter"
  ELSE "TypeError"

CallAs ==
  /\ made' = [by |-> "as", is |-> as(source)]
  /\ UNCHANGED <<source, iter>>

CallFrom ==
  /\ made' = [by |-> "from", is |-> from(source)]
  /\ UNCHANGED <<source, iter>>

\* ------------------------------------- asynciterablex.ts: pipe and nodePipe
\* An argument of pipe: an operator function (1 doubles every item and returns
\* an AsyncIterableX, 2 adds one to every item and returns a plain array), a
\* writable node stream, or an options object whose end is unset, true, false
\* or null.
PipeArgs ==
  [t : {"fn"}, id : 1..2, end : {"unset"}] \cup [t : {"sink"}, id : 1..2, end : {"method"}]
    \cup [t : {"opts"}, id : {0}, end : {"unset", "true", "false", "null"}]

ArgLists == UNION { [1..n -> PipeArgs] : n \in 0..MaxArgs }

\* The receiver of a pipe call: an AsyncIterableX over some items, which may
\* also be a readable node stream.
Receivers == [isX : {TRUE}, readable : BOOLEAN, items : {<<1, 2, 3>>}]

\* next(prev): what operator f returns for the sequence v.
ApplyOp(f, v) ==
  [isX |-> f = 1, readable |-> FALSE,
   items |-> [j \in 1..Len(v.items) |-> IF f = 1 THEN 2 * v.items[j] ELSE v.items[j] + 1]]

\* What as() looks at in an operator's result.
ShapeOf(v) ==
  [typ |-> "object", isX |-> v.isX, then |-> FALSE, subscribe |-> FALSE,
   iterable |-> ~v.isX, asyncIterable |-> v.isX, arrayLike |-> ~v.isX, iterator |-> FALSE]

\* as(v): the same instance, an adapter over v's items, or a one-element
\* sequence holding v.
asValue(v) ==
  LET how == as(ShapeOf(v)) IN
  IF how = "same" THEN v
  ELSE IF how = "of" THEN [isX |-> TRUE, readable |-> FALSE, items |-> <<v.items>>]
  ELSE [isX |-> TRUE, readable |-> FALSE, items |-> v.items]

\* acc = as(args[i](acc)): one round of either loop; the log records which
\* operator was called and what it was handed.
step_NoAs(st, f) ==
  [acc |-> ApplyOp(f, st.acc), log |-> Append(st.log, [fn |-> f, input |-> st.acc])]
step(st, f) ==
  [acc |-> asValue(ApplyOp(f, st.acc)), log |-> Append(st.log, [fn |-> f, input |-> st.acc])]

\* AsyncIterableX.prototype.pipe: while (++i < n) acc = as(args[i](acc)).
\* Calling an argument that is not a function throws a TypeError.
RECURSIVE pipeLoop(_, _, _)
pipeLoop(args, i, st) ==
  IF i > Len(args) THEN [out |-> "seq", value |-> st.acc, log |-> st.log]
  ELSE IF args[i].t # "fn" THEN [out |-> "TypeError", value |-> st.acc, log |-> st.log]
  ELSE pipeLoop(args, i + 1, step(st, args[i].id))

pipe(recv, args) == pipeLoop(args, 1, [acc |-> recv, log |-> <<>>])

\* ({ end = true } = args[i + 1] || {}): the default applies when there is no
\* next argument or its end is undefined; a writable's end is its method.
endOption_Unset(args, i) == "true"
endOption(args, i) ==
  IF i > Len(args) \/ args[i].end = "unset" THEN "true" ELSE args[i].end

\* Which arguments nodePipe calls as operators: typeof next === 'function'.
isOperator_Any(a) == TRUE
isOperator(a) == a.t = "fn"

\* nodePipe: functions are applied, the first writable ends the loop (prev is
\* piped into it, through toNodeStream unless prev is a readable stream), any
\* other argument is passed over.
RECURSIVE nodeLoop(_, _, _)
nodeLoop(args, i, st) ==
  IF i > Len(args) THEN [out |-> "seq", value |-> st.acc, log |-> st.log]
  ELSE IF isOperator(args[i]) THEN
    IF args[i].t = "fn" THEN nodeLoop(args, i + 1, step(st, args[i].id))
    ELSE [out |-> "TypeError", value |-> st.acc, log |-> st.log]
  ELSE IF args[i].t = "sink"
    THEN [out |-> "sink", value |-> st.acc, log |-> st.log, sink |-> args[i].id,
          end |-> endOption(args, i + 1),
          via |-> IF st.acc.readable THEN "pipe" ELSE "toNodeStream"]
  ELSE nodeLoop(args, i + 1, st)

nodePipe(recv, args) == nodeLoop(args, 1, [acc |-> recv, log |-> <<>>])

\* No drain: the call returned a sequence (or threw).
NoDrain == [sink |-> 0, end |-> "none", left |-> <<>>, written |-> <<>>, phase |-> "none",
            closed |-> FALSE]

\* this.pipe(...args) in the browser build.
CallPipe ==
  /\ made = NotMade
  /\ made' = [by |-> "pipe", res |-> pipe(source.recv, source.args), drain |-> NoDrain]
  /\ UNCHANGED <<source, iter>>

\* this.pipe(...args) in the node build.  With a writable among the arguments
\* the call returns what prev.pipe(writable, { end }) returns, the writable,
\* and the drain of prev into it has begun.
CallNodePipe ==
  /\ made = NotMade
  /\ LET res == nodePipe(source.recv, source.args) IN
       made' = [by |-> "nodePipe", res |-> res,
                drain |-> IF res.out = "sink"
                            THEN [sink |-> res.sink, end |-> res.end, left |-> res.value.items,
                                  written |-> <<>>, phase |-> "draining", closed |-> FALSE]
                            ELSE NoDrain]
  /\ UNCHANGED <<source, iter>>

\* The readable side hands the sink the sequence's next item.
SinkWrite ==
  /\ made # NotMade /\ made.drain.phase = "draining" /\ made.drain.left # <<>>
  /\ made' = [made EXCEPT !.drain.left = Tail(@),
                           !.drain.written = Append(@, Head(made.drain.left))]
  /\ UNCHANGED <<source, iter>>

\* The sequence is exhausted: the sink is ended unless the end option is false.
SinkEnd ==
  /\ made # NotMade /\ made.drain.phase = "draining" /\ made.drain.left = <<>>
  /\ made' = [made EXCEPT !.drain.phase = "finished",
                           !.drain.closed = (made.drain.end # "false")]
  /\ UNCHANGED <<source, iter>>

\* ------------------------------------------------------------ specification
\* No tap: the consumer iterates the sequence itself.
NoTap == [on |-> FALSE, gen |-> "none", pc |-> "idle", hasNext |-> FALSE, hasError |-> FALSE,
          hasComplete |-> FALSE, held |-> NoResult, calls |-> <<>>, failed |-> FALSE]

\* tap(source, observer): the observer may lack any of its callbacks.
Taps ==
  {NoTap} \cup { [NoTap EXCEPT !.on = TRUE, !.hasNext = n, !.hasError = e, !.hasComplete = c] :
                   n \in BOOLEAN, e \in BOOLEAN, c \in BOOLEAN }

IterInit(k, n) ==
  /\ kind = k
  /\ gen = "none" /\ pc = "idle" /\ pend = "none" /\ arg = Undef /\ nreq = 0
  /\ rd = [locked |-> FALSE, sstate |-> "readable", mode |-> "none",
           started |-> FALSE, threw |-> FALSE, innerErr |-> "none", cancelErr |-> "none",
           cancels |-> <<>>, releases |-> 0, relErrs |-> 0,
           reads |-> 0, cycles |-> 0, spos |-> 0, other |-> "none", refused |-> FALSE]
  /\ by = [size |-> 0, offset |-> 0, buf |-> <<>>]
  /\ sq = [n |-> n, length |-> 0, i |-> 0, pos |-> 0, calls |-> 0, callsOK |-> TRUE,
           cur |-> <<>>, closes |-> 0, after |-> NoResult]
  /\ ob = [subs |-> 0, unsubs |-> 0, q |-> <<>>, ended |-> FALSE, term |-> FALSE]
  /\ co = [waiting |-> FALSE, last |-> NoResult, nres |-> 0, vals |-> 0, got |-> 0,
           ordered |-> TRUE, aborted |-> FALSE, failed |-> FALSE, doneSeen |-> FALSE, afterDone |-> 0]

\* The sources a sequence of class k may have been built on: a stream (its
\* data is the environment's), one deferred value, up to MaxItems items, and
\* for an array-like a length that may be negative.
SourceSizes(k) ==
  CASE k \in StreamKinds -> {0}
    [] k = "promise" -> {1}
    [] k = "array" -> (0 - 1)..MaxItems
    [] OTHER -> 0..MaxItems

Init ==
  /\ \E k \in Kinds : \E n \in SourceSizes(k) : IterInit(k, n)
  /\ tp \in Taps
  /\ source = NoInput
  /\ made = NotMade

Next ==
  \/ GetIterator
  \/ GetSeqIterator
  \/ GetTapIterator
  \/ \E a \in Args : Next_(a)
  \/ Return_
  \/ Throw_
  \/ \E k \in 1..MaxChunk : ReadChunk(k)
  \/ ReadEnd
  \/ \E errs \in BOOLEAN : ReadFail(errs)
  \/ \E out \in {"ok", "E_read", "E_cancel"}, relOK \in BOOLEAN : CancelCatchSettle(out, relOK)
  \/ \E out \in {"ok", "E_read", "E_cancel"}, relOK \in BOOLEAN : CancelFinallySettle(out, relOK)
  \/ \E ok \in BOOLEAN : SelectorSettle(ok)
  \/ SourceItem
  \/ SourceDone
  \/ SourceFail
  \/ \E ok \in BOOLEAN : SourceReturnSettle(ok)
  \/ \E ok \in BOOLEAN : PromiseSettle(ok)
  \/ ObservableNext
  \/ ObservableComplete
  \/ ObservableError
  \/ SinkSettle
  \/ \E ok \in BOOLEAN : ObserverSettle(ok)

\* One sequence instance and one iteration of it.
Spec == Init /\ [][Next]_vars

\* The constructors, applied to every shape of input.
InitDispatch ==
  /\ IterInit("of", 0)
  /\ tp = NoTap
  /\ source \in Inputs
  /\ made = NotMade

NextDispatch == CallAs \/ CallFrom

SpecDispatch == InitDispatch /\ [][NextDispatch]_vars

\* pipe, called on a receiver with every short list of arguments.
InitPipe ==
  /\ IterInit("of", 0)
  /\ tp = NoTap
  /\ source \in [recv : Receivers, args : ArgLists]
  /\ made = NotMade

NextPipe == CallPipe \/ CallNodePipe \/ SinkWrite \/ SinkEnd

SpecPipe == InitPipe /\ [][NextPipe]_vars

\* Two adapters over one stream: the one followed here, iterated directly,
\* and another one whose iteration may start and end at any moment.
InitLock ==
  /\ \E k \in StreamKinds : IterInit(k, 0)
  /\ tp = NoTap
  /\ source = NoInput
  /\ made = NotMade

NextLock ==
  \/ GetIterator
  \/ OtherGetIterator
  \/ OtherRelease
  \/ \E a \in {Undef, [t |-> "num", n |-> MaxChunk + 1]} : Next_(a)
  \/ Return_
  \/ Throw_
  \/ \E k \in 1..MaxChunk : ReadChunk(k)
  \/ ReadEnd
  \/ \E errs \in BOOLEAN : ReadFail(errs)
  \/ \E out \in {"ok", "E_read", "E_cancel"}, relOK \in BOOLEAN : CancelCatchSettle(out, relOK)
  \/ \E out \in {"ok", "E_read", "E_cancel"}, relOK \in BOOLEAN : CancelFinallySettle(out, relOK)

SpecLock == InitLock /\ [][NextLock]_vars

\* ================================================================== claims
\* The consumer iterates the sequence itself, not through a tap.
Direct == ~tp.on

\* The iteration of the sequence has ended: its generator has completed (and
\* whoever pulled it has the answer).
Ended == gen = "completed"

\* C1: on every termination path of an iteration of a stream-backed sequence
\* (exhaustion, abandonment by the consumer at any point after the iterator
\* was obtained, a failure of the stream) the stream is left unlocked once the
\* iteration has ended, and the lock is released at most once.  (Stated for
\* the runs in which releaseLock itself did not throw.)
C1_UnlockedOnEveryExit ==
  (kind \in StreamKinds /\ Direct /\ Ended /\ rd.relErrs = 0) =>
    (~rd.locked /\ rd.releases <= 1)

\* C2: a failure raised by the stream's read is propagated to the consumer:
\* the pending pull fails with that same error, and is never answered done.
C2_ReadFailurePropagates ==
  (kind \in StreamKinds /\ Direct /\ Ended /\ rd.innerErr = "E_read") =>
    co.last = Failure("E_read")

\* C3: in an iteration whose body has started the reader's cancel is invoked
\* exactly once whatever the exit path, with the failure as its reason when the
\* inner sequence failed and with no reason otherwise; never twice, and never
\* before the body leaves its loop.
C3_CancelExactlyOnce ==
  kind \in StreamKinds =>
    /\ Len(rd.cancels) <= 1
    /\ rd.threw = (rd.innerErr # "none")
    /\ rd.cancels # <<>> =>
         /\ rd.started
         /\ pc \in {"cancelCatch", "cancelFinally"} \/ Ended
         /\ rd.cancels[1] = (IF rd.innerErr # "none" THEN rd.innerErr ELSE "noreason")
    /\ (Ended /\ rd.started) => Len(rd.cancels) = 1

\* C3's case: the stream's read failed, the iteration has ended, and cancel
\* was called once, with that failure.
C3_Witness == Direct /\ Ended /\ rd.started /\ rd.cancels = <<"E_read">>

\* C3's other case: early termination by the consumer, one cancel, no reason.
C3_WitnessReturn == Direct /\ Ended /\ pend = "return" /\ rd.cancels = <<"noreason">>

\* C4: an error raised by the reader's cancel during cleanup is suppressed: it
\* is not delivered to the consumer and does not keep the unlock step from
\* running.
C4_CleanupErrorsSuppressed ==
  (kind \in StreamKinds /\ Direct /\ Ended /\ rd.cancelErr = "E_cancel") =>
    (co.last.e # "E_cancel" /\ rd.releases = 1)

\* C5: in buffer-reuse mode a pull asking for n bytes is answered by exactly
\* one result of exactly n bytes, the stream's next n bytes in order, after at
\* least n / MaxChunk and at most n reads; nothing shorter is ever handed
\* over, and the fill offset stays within 0 .. size.
C5_FullRegionPerRequest ==
  rd.mode = "byob" =>
    /\ 0 <= by.offset /\ by.offset <= by.size
    /\ Len(by.buf) = by.size
    /\ co.nres = nreq - (IF co.waiting THEN 1 ELSE 0)
    /\ co.ordered
    /\ (~co.waiting /\ co.last.t = "value") =>
         /\ arg.t \in {"num", "buf", "sab"}
         /\ by.size = arg.n /\ by.offset = arg.n
         /\ Len(co.last.v) = arg.n
         /\ rd.reads <= arg.n /\ rd.reads * MaxChunk >= arg.n
         /\ co.got = rd.spos

\* C5's case: 10 bytes asked for, handed over as one 10-byte result after
\* four reads (3 + 3 + 3 + 1).
C5_Witness ==
  /\ rd.mode = "byob" /\ Direct /\ ~co.waiting /\ co.last.t = "value"
  /\ arg = [t |-> "num", n |-> 10] /\ Len(co.last.v) = 10 /\ rd.reads = 4

\* C6: in buffer-reuse mode the bytes filled before the stream signalled its
\* end inside a read cycle reach the consumer (trimmed to the filled length):
\* once the sequence has ended on the stream's end, the consumer has been
\* given every byte the stream handed over.
C6_BytesBeforeEndDelivered ==
  (rd.mode = "byob" /\ Direct /\ Ended /\ rd.sstate = "closed") => co.got = rd.spos

\* C7: once the iterator the consumer holds (of an of sequence, of a from
\* sequence over an array-like / iterable / deferred value / observable, of a
\* stream-backed sequence in either mode, or of a tap over any of these) has
\* reported done, it stays completed and every later pull is answered done at
\* once: it never fails and never yields a value, and no read, cancel or
\* release reaches the stream, no pull or close the source, no call the
\* transform, no subscription or unsubscription the observable, and no
\* callback the tap's observer.  (A subscription the tap left open may still
\* be pushed to by its observable; a request is what must change nothing.)
C7_DoneIsFinal ==
  [][co.doneSeen =>
       /\ Facing = "completed" /\ tp'.gen = tp.gen /\ tp'.pc = "idle" /\ tp'.calls = tp.calls
       /\ gen' = gen /\ pc' = pc
       /\ co'.doneSeen /\ ~co'.waiting /\ co'.vals = co.vals /\ co'.got = co.got
       /\ rd' = rd /\ by' = by
       /\ sq'.calls = sq.calls /\ sq'.closes = sq.closes /\ sq'.i = sq.i
       /\ ob'.subs = ob.subs /\ ob'.unsubs = ob.unsubs
       /\ nreq' = nreq + 1 => (sq' = sq /\ ob' = ob)
       /\ (pend' = "next" /\ nreq' = nreq + 1) => co'.last = Done]_vars

\* C7's case: a pull issued after done was reported has been answered done.
C7_Witness == co.doneSeen /\ co.afterDone > 0 /\ pend = "next" /\ co.last = Done

\* C7's case through a tap: the source was exhausted, complete was called, and
\* a later pull on the tap's iterator has been answered done.
C7_WitnessTap ==
  /\ tp.on /\ co.doneSeen /\ co.afterDone > 0 /\ pend = "next" /\ co.last = Done
  /\ tp.calls # <<>> /\ tp.calls[Len(tp.calls)] = Done

\* What the claims call the shapes of an input.
Sequence(x) == x.isX
Text(x) == x.typ = "string"
Iterable(x) == x.iterable \/ x.asyncIterable
Thenable(x) == x.typ = "object" /\ x.then
Subscribable(x) == x.typ = "object" /\ x.subscribe
ArrayLike(x) == x.arrayLike

\* C8: normalize (as) picks the adapter of the first rule that matches, in the
\* order: a sequence (returned as it is), a text (one element), an iterable,
\* a thenable, a subscribable, an array-like, anything else (one element); and
\* it never fails.
C8_AsFirstMatchWins ==
  made.by = "as" =>
    LET x == source
        r == made.is
        rank == <<Sequence(x), Text(x), Iterable(x), Thenable(x), Subscribable(x),
                  ArrayLike(x), TRUE>>
        adapter == <<"same", "of", "iter", "promise", "observable", "array", "of">>
    IN /\ r # "TypeError"
       /\ \E j \in 1..7 :
            /\ rank[j] /\ r = adapter[j]
            /\ \A h \in 1..(j - 1) : ~rank[h]

\* C8's case: an input that is thenable, subscribable and array-like at once
\* has been normalized (to the deferred adapter, the earliest of the three).
C8_Witness ==
  /\ made.by = "as" /\ made.is = "promise"
  /\ Subscribable(source) /\ ArrayLike(source)

\* C9 as claimed: from fails with the type error for every input that is none
\* of iterable, thenable, subscribable, array-like.
C9_FromRejectsAllOthers ==
  (made.by = "from" /\ ~Iterable(source) /\ ~Thenable(source) /\ ~Subscribable(source)
     /\ ~ArrayLike(source)) => made.is = "TypeError"

\* C9 amended: from fails with the type error exactly for the inputs that are
\* none of iterable, thenable, subscribable, array-like or iterator; an
\* iterator is wrapped as an iterating adapter.
C9_FromRejectsNonSources ==
  made.by = "from" =>
    /\ made.is = "TypeError" <=>
         ~(Iterable(source) \/ Thenable(source) \/ Subscribable(source)
             \/ ArrayLike(source) \/ source.iterator)
    /\ (source.iterator /\ ~Iterable(source) /\ ~Thenable(source) /\ ~Subscribable(source)
          /\ ~ArrayLike(source)) => made.is = "iter"

\* C9's case: from was given an input of no source shape and threw.
C9_Witness ==
  /\ made.by = "from" /\ made.is = "TypeError"
  /\ source.typ = "object" /\ ~source.iterator /\ ~Iterable(source)

\* C10: for a sequence over an array-like, an iterable or an observable the
\* transform is called once per item, in source order, with the indices 0, 1,
\* 2, ..., each call made only after the previous item was yielded; the items
\* are yielded in that order; and a sequence that ends by exhaustion has
\* yielded every item of its source.
C10_OrderedTransforms ==
  (kind \in {"array", "iter", "observable"} /\ Direct) =>
    /\ sq.callsOK
    /\ co.ordered
    /\ sq.i = sq.calls
    /\ co.vals <= sq.calls /\ sq.calls <= co.vals + 1
    /\ pc = "sel" => sq.calls = co.vals + 1
    /\ gen = "suspendedYield" => sq.calls = co.vals
    /\ (Ended /\ ~co.aborted /\ ~co.failed /\ co.last = Done) => co.vals = toLength(sq.n)

\* C10's case: two items have been yielded and the transform is running for
\* the third.
C10_Witness ==
  /\ kind \in {"array", "iter", "observable"} /\ Direct
  /\ pc = "sel" /\ co.vals = 2 /\ sq.calls = 3 /\ sq.cur = <<3, 2>>

\* The position of the first writable among the arguments (0: there is none).
FirstSink(args) ==
  IF \E j \in 1..Len(args) : args[j].t = "sink"
    THEN CHOOSE j \in 1..Len(args) :
           args[j].t = "sink" /\ \A h \in 1..(j - 1) : args[h].t # "sink"
    ELSE 0

\* The operator functions among the first n arguments, in their order.
RECURSIVE FnsBefore(_, _)
FnsBefore(args, n) ==
  IF n = 0 THEN <<>>
  ELSE IF args[n].t = "fn" THEN Append(FnsBefore(args, n - 1), args[n].id)
  ELSE FnsBefore(args, n - 1)

\* The items after the operators fs were applied left to right.
RECURSIVE Through(_, _)
Through(fs, items) ==
  IF fs = <<>> THEN items
  ELSE Through(Tail(fs), [j \in 1..Len(items) |->
                            IF Head(fs) = 1 THEN 2 * items[j] ELSE items[j] + 1])

\* The end option was explicitly set to false in the argument after the sink.
ExplicitFalse(args, j) == j < Len(args) /\ args[j + 1].t = "opts" /\ args[j + 1].end = "false"

\* C11: in the sink-aware pipe, with a writable among the arguments, exactly
\* the functions before the first writable are applied, left to right; the
\* call returns that writable; the resulting sequence is drained into it, the
\* writes arriving in sequence order; nothing after the writable is applied;
\* and once the drain is over the writable has been closed if and only if the
\* end option was not explicitly false.
C11_SinkAwarePipe ==
  (made.by = "nodePipe" /\ FirstSink(source.args) > 0) =>
    LET j == FirstSink(source.args)
        fs == FnsBefore(source.args, j - 1)
        all == Through(fs, source.recv.items)
        d == made.drain
    IN /\ made.res.out = "sink" /\ made.res.sink = source.args[j].id
       /\ [k \in 1..Len(made.res.log) |-> made.res.log[k].fn] = fs
       /\ d.sink = source.args[j].id
       /\ d.written \o d.left = all
       /\ d.phase = "draining" => ~d.closed
       /\ d.phase = "finished" => (d.left = <<>> /\ (d.closed <=> ~ExplicitFalse(source.args, j)))

\* C11's case: [1, 2, 3] piped through the doubling operator into a writable,
\* with another operator after it: 2, 4, 6 were written and the writable closed.
C11_Witness ==
  /\ made.by = "nodePipe" /\ Len(source.args) = 3
  /\ source.args[1] = [t |-> "fn", id |-> 1, end |-> "unset"]
  /\ source.args[2].t = "sink" /\ source.args[3].t = "fn"
  /\ made.drain.phase = "finished" /\ made.drain.written = <<2, 4, 6>> /\ made.drain.closed

\* A result that is already a sequence is kept; any other is wrapped.
Normalized(v) == IF v.isX THEN v ELSE [isX |-> TRUE, readable |-> FALSE, items |-> v.items]

\* C12: pipe (either build) with a list of functions f1 .. fn returns
\* normalize(fn(... normalize(f1(receiver)) ...)): each function is called
\* once, in order, with the normalized result of the one before it (the first
\* with the receiver); with an empty list the receiver itself is returned.
C12_PipeComposes ==
  (made.by \in {"pipe", "nodePipe"} /\ \A j \in 1..Len(source.args) : source.args[j].t = "fn") =>
    LET n == Len(source.args)
        log == made.res.log
    IN /\ made.res.out = "seq"
       /\ Len(log) = n
       /\ \A k \in 1..n :
            /\ log[k].fn = source.args[k].id
            /\ log[k].input.isX
            /\ log[k].input = IF k = 1 THEN source.recv
                               ELSE Normalized(ApplyOp(log[k - 1].fn, log[k - 1].input))
       /\ made.res.value = IF n = 0 THEN source.recv
                            ELSE Normalized(ApplyOp(log[n].fn, log[n].input))
       /\ made.res.value.items = Through(FnsBefore(source.args, n), source.recv.items)

\* C12's case: add one, then double, applied to [1, 2, 3]: 4, 6, 8.
C12_Witness ==
  /\ made.by = "pipe" /\ Len(source.args) = 2
  /\ source.args[1].t = "fn" /\ source.args[1].id = 2
  /\ source.args[2].t = "fn" /\ source.args[2].id = 1
  /\ made.res.value.isX /\ made.res.value.items = <<4, 6, 8>>

\* C13: when a stream-backed sequence is consumed through tap and the consumer
\* returns early on the tap's iterator after at least one pull, the
\* stream-backed source's cleanup still runs, once: the reader has been
\* cancelled and the stream is unlocked.  (Stated for the runs in which neither
\* cancel nor releaseLock failed.)
C13_TapEarlyReturnCleansUp ==
  (kind \in StreamKinds /\ tp.on /\ pend = "return" /\ tp.gen = "completed" /\ ~co.waiting
     /\ rd.started /\ rd.relErrs = 0 /\ rd.cancelErr = "none") =>
    (Len(rd.cancels) = 1 /\ ~rd.locked)

\* C14: in buffer-reuse mode no read is issued before the consumer's first
\* pull: the priming step has run the generators to the placeholder yield and
\* its result is not the consumer's.  Every read belongs to a read cycle, the
\* k-th cycle is begun by the k-th pull with the size or buffer that pull
\* supplied, and every result handed over is the region of the pull it answers.
C14_PrimedBeforeFirstPull ==
  (rd.mode = "byob" /\ Direct) =>
    /\ nreq = 0 => (gen = "suspendedYield" /\ pc = "idle" /\ rd.reads = 0 /\ rd.spos = 0
                      /\ rd.cycles = 0 /\ co.nres = 0)
    /\ rd.cycles <= nreq
    /\ (rd.reads > 0 \/ rd.spos > 0) => rd.cycles >= 1
    /\ pc = "read" =>
         /\ pend = "next" /\ arg.t \in {"num", "buf", "sab"}
         /\ rd.cycles = nreq
         /\ by.size = arg.n
         /\ by.offset = 0 => by.buf = [j \in 1..arg.n |-> IF arg.t = "num" THEN 0 ELSE 0 - 1]
    /\ (~co.waiting /\ co.last.t = "value") =>
         (rd.cycles = nreq /\ co.vals = nreq /\ Len(co.last.v) = arg.n /\ co.got = rd.spos)

\* C14's case: the second pull handed over a buffer, the second cycle is
\* reading into it, and the first pull was answered with its own 4 bytes.
C14_Witness ==
  /\ rd.mode = "byob" /\ Direct /\ pc = "read" /\ nreq = 2 /\ rd.cycles = 2
  /\ arg.t = "buf" /\ by.size = BufLen /\ by.offset = 1 /\ co.vals = 1 /\ co.got = MaxChunk + 1

\* C15: when buffer-reuse mode was asked for and the buffer-reuse reader could
\* not be acquired, the iteration runs the default strategy throughout: a
\* default reader holds the lock, nothing runs before the first pull (no
\* priming, no read), no read cycle is ever begun, each pull issues exactly
\* one read, each value is the stream's next chunk as it came (the first pull
\* gets the first chunk), and the cleanup is the default mode's: one cancel,
\* after the body began, and at most one release.
C15_FallbackIsDefault ==
  (kind = "byob" /\ rd.mode = "default" /\ Direct) =>
    /\ nreq = 0 => (gen = "suspendedStart" /\ ~rd.started /\ rd.reads = 0 /\ rd.spos = 0
                      /\ rd.locked)
    /\ rd.cycles = 0 /\ by.size = 0
    /\ rd.reads <= 1
    /\ pc = "read" => (rd.reads = 1 /\ pend = "next")
    /\ (~co.waiting /\ co.last.t = "value") =>
         (rd.reads = 1 /\ co.last.v = <<rd.spos>> /\ co.vals = rd.spos /\ co.got = rd.spos)
    /\ Len(rd.cancels) <= 1 /\ rd.releases <= 1
    /\ rd.cancels # <<>> => rd.started
    /\ rd.releases = 1 => Len(rd.cancels) = 1
    /\ (Ended /\ rd.started) => Len(rd.cancels) = 1

\* C15's case: the fallback was taken, and the second pull has been answered
\* with the stream's second chunk after one read.
C15_Witness ==
  /\ kind = "byob" /\ rd.mode = "default" /\ Direct
  /\ nreq = 2 /\ ~co.waiting /\ co.last = Value(<<2>>) /\ rd.reads = 1 /\ co.vals = 2

\* C16: a buffer-reuse pull whose target size is 0 (a count of 0, an empty
\* buffer) is answered at once with the empty region, not done and not an
\* error, without a read: the stream, the lock and the reader are as they
\* were, and the generator is back at its yield, ready for the next pull.  No
\* read is ever issued at an offset that has reached the target size.
C16_ZeroSizeIsNoOp ==
  [][/\ (rd.mode = "byob" /\ Direct /\ gen = "suspendedYield" /\ nreq' = nreq + 1
           /\ pend' = "next" /\ arg'.t \in {"num", "buf", "sab"} /\ arg'.n = 0) =>
          /\ ~co'.waiting /\ co'.last = Value(<<>>) /\ co'.vals = co.vals + 1
          /\ gen' = "suspendedYield" /\ pc' = "idle"
          /\ rd'.reads = 0 /\ rd'.spos = rd.spos /\ rd'.sstate = rd.sstate
          /\ rd'.locked = rd.locked /\ rd'.cancels = rd.cancels /\ rd'.releases = rd.releases
          /\ rd'.threw = rd.threw
     /\ pc' = "read" /\ rd'.mode = "byob" => by'.offset < by'.size]_vars

\* C16's case: the first pull asked for 0 bytes and got the empty region; the
\* second pull then asked for 1 byte and got it.
C16_Witness ==
  /\ rd.mode = "byob" /\ Direct /\ nreq = 2 /\ co.vals = 2 /\ ~co.waiting
  /\ arg = [t |-> "num", n |-> 1] /\ co.last = Value(<<1>>) /\ rd.spos = 1 /\ rd.cycles = 2

\* The observable's error has been taken from the sink by the body.
ErrorTaken == ob.term /\ ~ob.ended /\ \A j \in 1..Len(ob.q) : ob.q[j] # 0

\* C17: an iteration of an observable-backed sequence subscribes once, when
\* its body starts, and unsubscribes once, when its body ends, whichever way
\* it ends (completion, an error pushed by the observable, a failed transform,
\* early termination by the consumer); it is unsubscribed exactly when it has
\* ended, so nothing is yielded after the unsubscription; and the error the
\* observable pushed is what the pull that met it fails with.
C17_SubscribeUnsubscribeOnce ==
  (kind = "observable" /\ Direct) =>
    /\ ob.subs <= 1 /\ ob.unsubs <= ob.subs
    /\ gen \in {"none", "suspendedStart"} => ob.subs = 0
    /\ gen \in {"executing", "suspendedYield"} => (ob.subs = 1 /\ ob.unsubs = 0)
    /\ Ended => ob.unsubs = ob.subs
    /\ (Ended /\ co.vals > 0) => (ob.subs = 1 /\ ob.unsubs = 1)
    /\ ErrorTaken =>
         /\ Ended /\ co.failed /\ ob.unsubs = 1
         /\ (~co.waiting /\ ~co.doneSeen /\ pend = "next") => co.last = Failure("E_src")

\* C17's case: after one item the observable pushed an error; the next pull
\* failed with it and the subscription was dropped.
C17_Witness ==
  /\ kind = "observable" /\ Direct /\ Ended /\ ErrorTaken
  /\ co.vals = 1 /\ co.last = Failure("E_src") /\ ob.subs = 1 /\ ob.unsubs = 1

\* C18 as claimed: the stream is locked to the adapter's reader from the
\* adapter's construction until the cleanup release, and no second reader
\* holds the lock meanwhile.
C18_LockedFromConstruction ==
  (kind \in StreamKinds /\ rd.releases = 0) => (rd.locked /\ rd.other # "held")

\* C18 amended: the stream is locked to the adapter's reader from the moment
\* an iterator is obtained, not from construction, and stays so until the
\* cleanup releases it; at no moment do two readers hold the lock; and an
\* iterator is never obtained while another reader holds it.
C18_LockedFromIteratorToRelease ==
  kind \in StreamKinds =>
    /\ ~(rd.locked /\ rd.other = "held")
    /\ gen = "none" => ~rd.locked
    /\ rd.locked <=> (gen # "none" /\ rd.releases = rd.relErrs)
    /\ rd.releases <= 1

\* C18's case: the other adapter took the lock before this one's iteration
\* started; this one's getReader was refused, and after the other's release it
\* obtained its iterator and holds the lock.
C18_Witness ==
  /\ kind \in StreamKinds /\ rd.other = "released" /\ rd.refused
  /\ rd.locked /\ gen = "executing" /\ pc = "read"

\* C19 as claimed: in buffer-reuse mode a pull whose argument is neither a
\* number nor a buffer issues no read and starts the cleanup pass with the
\* idle cancel; when that pass is over the consumer has been answered done,
\* the sequence has ended, the lock's release has run, and the consumer has
\* been given no byte more than it had before the pull.
C19_ArgLessPullEnds ==
  [][/\ (Direct /\ rd.mode = "byob" /\ gen = "suspendedYield" /\ nreq' = nreq + 1
           /\ pend' = "next" /\ arg' = Undef) =>
          /\ rd'.reads = 0 /\ rd'.cycles = rd.cycles /\ rd'.spos = rd.spos
          /\ rd'.cancels = Append(rd.cancels, "noreason")
          /\ pc' = "cancelFinally" /\ co'.waiting
     /\ (Direct /\ rd.mode = "byob" /\ pc = "cancelFinally" /\ pend = "next"
           /\ arg = Undef /\ pc' # pc) =>
          /\ gen' = "completed" /\ ~co'.waiting /\ co'.last = Done
          /\ co'.got = co.got /\ rd'.spos = rd.spos
          /\ rd'.releases = 1]_vars

\* The callbacks the tap has invoked so far: the last of them, and how many
\* of them were next callbacks (only the last can be anything else).
Called == tp.calls # <<>>
LastCall == tp.calls[Len(tp.calls)]
NextCalls == Len(tp.calls) - (IF Called /\ LastCall.t # "value" THEN 1 ELSE 0)
CallbackPending == tp.pc \in {"obsNext", "obsComplete", "obsError"}
FullObserver == tp.on /\ tp.hasNext /\ tp.hasError /\ tp.hasComplete

\* The tap answers the consumer's pending pull in this step.
TapAnswers == tp.on /\ tp.gen = "executing" /\ co.waiting /\ ~co'.waiting

\* Complete or error, once invoked, is the last callback ever invoked.
TerminalCallbackIsLast ==
  /\ \A j \in 1..(Len(tp.calls) - 1) : tp.calls[j].t = "value"
  /\ (Called /\ LastCall.t # "value") =>
       (tp.gen = "completed" \/ tp.pc \in {"obsComplete", "obsError"})

\* A callback is invoked with what the source's pull settled with (an item
\* for next, done for complete, the failure for error), while the consumer's
\* pull is still unanswered.
InvokedOnSettle ==
  tp'.calls # tp.calls =>
    /\ tp'.calls = Append(tp.calls, tp'.held)
    /\ tp'.pc = (CASE tp'.held.t = "value" -> "obsNext"
                   [] tp'.held.t = "done" -> "obsComplete"
                   [] OTHER -> "obsError")
    /\ gen' = (IF tp'.held.t = "value" THEN "suspendedYield" ELSE "completed")
    /\ co'.waiting /\ co'.nres = co.nres /\ co'.vals = co.vals

\* C20 as claimed, for an observer that has all three callbacks: an item
\* reaches the consumer only after next was invoked with it; the source's done
\* reaches the consumer only after complete was invoked; once error has been
\* invoked the consumer's pull fails with the source's failure; and complete
\* or error is the last callback invoked.
C20_TapCallbacksAsClaimed ==
  /\ [](FullObserver => TerminalCallbackIsLast)
  /\ [][FullObserver =>
          /\ InvokedOnSettle
          /\ (TapAnswers /\ co'.last.t = "value") =>
               (tp.pc = "obsNext" /\ LastCall = co'.last /\ tp'.calls = tp.calls)
          /\ (TapAnswers /\ co'.last.t = "done") =>
               (tp.pc = "obsComplete" /\ LastCall = Done /\ tp'.calls = tp.calls)
          /\ (tp.pc = "obsError" /\ tp'.pc # "obsError") =>
               (~co'.waiting /\ co'.last = tp.held /\ LastCall = tp.held)]_vars

\* C20 amended: for tap over any source and an observer that may lack any of
\* its callbacks.  Each callback the observer has is invoked with what the
\* source's pull settled with and awaited before the consumer is answered:
\* next with each item, in source order, before that item is yielded; complete
\* only when the source reports done; error only when the source's pull
\* fails.  Complete and error are invoked at most once, never both, and no
\* callback is invoked after either.  When the callback resolves the consumer
\* is answered with the item, done, or the source's own failure; when it fails
\* the consumer's pull fails with the callback's failure instead and the tap
\* has ended.  A callback the observer lacks is skipped.
C20_TapCallbacks ==
  /\ [](tp.on =>
          /\ TerminalCallbackIsLast
          /\ \A j \in 1..Len(tp.calls) :
               /\ tp.calls[j].t = "value" => tp.hasNext
               /\ tp.calls[j].t = "done" => tp.hasComplete
               /\ tp.calls[j].t = "error" => tp.hasError
          /\ tp.failed => (Called /\ tp.gen = "completed")
          /\ tp.hasNext =>
               NextCalls = co.vals + (IF tp.pc = "obsNext" \/ (tp.failed /\ LastCall.t = "value")
                                        THEN 1 ELSE 0))
  /\ [][tp.on =>
          /\ InvokedOnSettle
          /\ (TapAnswers /\ co'.last.t = "value") =>
               /\ tp'.calls = tp.calls /\ tp'.gen = "suspendedYield"
               /\ IF tp.hasNext THEN tp.pc = "obsNext" /\ LastCall = co'.last
                                ELSE tp.pc = "inner" \/ tp.pc = "idle"
          /\ (TapAnswers /\ co'.last.t = "done") =>
               /\ tp'.calls = tp.calls /\ tp'.gen = "completed"
               /\ IF tp.hasComplete THEN tp.pc = "obsComplete" /\ LastCall = Done
                                    ELSE tp.pc = "inner" \/ tp.pc = "idle"
          /\ (TapAnswers /\ co'.last.t = "error") =>
               /\ tp'.calls = tp.calls /\ tp'.gen = "completed"
               /\ IF CallbackPending
                    THEN \/ tp.pc = "obsError" /\ co'.last = tp.held /\ LastCall = tp.held
                                               /\ tp'.failed = tp.failed
                         \/ co'.last = Failure("E_obs") /\ tp'.failed
                    ELSE ~tp.hasError]_vars

\* C20's case: over an observable-backed source, next was invoked for one
\* item, which was then yielded; the source's next pull failed, error was
\* invoked with that failure and resolved, and the consumer's pull failed with
\* the same failure.
C20_Witness ==
  /\ FullObserver /\ tp.gen = "completed" /\ ~tp.failed /\ ~co.waiting
  /\ co.vals = 1 /\ Len(tp.calls) = 2
  /\ tp.calls[1].t = "value" /\ LastCall.t = "error" /\ co.last = LastCall
====
